---- MODULE Spec2Model ----
(***************************************************************************)
(* Model of the redirect pipeline of server.js: GET /:code (resolution,    *)
(* expiry, referrer policy, bypass logging, background geolocation and     *)
(* click recording), together with the admin operations that write the     *)
(* same tables (POST /api/partners, POST /api/shorten, DELETE              *)
(* /api/urls/:code) and the PostgreSQL tables of initDB.                   *)
(*                                                                         *)
(* JavaScript strings are sequences of one-character strings, so that the  *)
(* string functions of the code (replace, startsWith, includes,            *)
(* toLowerCase) are computed rather than assumed.                          *)
(***************************************************************************)
EXTENDS Integers, Sequences, FiniteSets, TLC

\* ------------------------------------------------------------------ bounds
\* Number of GET /:code requests of a behaviour.
MaxReq == 2
\* The clock runs over the instants 0..MaxTime.
MaxTime == 1
\* At most MaxPartners partners are created.
MaxPartners == 1

\* ----------------------------------------------------------------- strings
UpperChars == <<"A","B","C","D","E","F","G","H","I","J","K","L","M",
                "N","O","P","Q","R","S","T","U","V","W","X","Y","Z">>
LowerChars == <<"a","b","c","d","e","f","g","h","i","j","k","l","m",
                "n","o","p","q","r","s","t","u","v","w","x","y","z">>

\* String.prototype.toLowerCase on one character, and on a string.
lowerChar(c) ==
  IF \E i \in DOMAIN UpperChars : UpperChars[i] = c
  THEN LowerChars[CHOOSE i \in DOMAIN UpperChars : UpperChars[i] = c]
  ELSE c

toLowerCase(s) == [i \in DOMAIN s |-> lowerChar(s[i])]

\* String.prototype.startsWith
startsWith(s, p) ==
  /\ Len(p) <= Len(s)
  /\ SubSeq(s, 1, Len(p)) = p

\* String.prototype.includes
includes(s, sub) ==
  \E i \in 0..(Len(s) - Len(sub)) : SubSeq(s, i + 1, i + Len(sub)) = sub

\* s with its first n characters removed
drop(s, n) == SubSeq(s, n + 1, Len(s))

Str_http  == <<"h","t","t","p",":","/","/">>
Str_https == <<"h","t","t","p","s",":","/","/">>
Str_www   == <<"w","w","w",".">>
Str_slash == <<"/">>

\* str.replace(/^https?:\/\//, '')
stripProtocol(s) ==
  IF startsWith(s, Str_https) THEN drop(s, Len(Str_https))
  ELSE IF startsWith(s, Str_http) THEN drop(s, Len(Str_http))
  ELSE s

\* str.replace(/^www\./, '')
stripWww(s) == IF startsWith(s, Str_www) THEN drop(s, Len(Str_www)) ELSE s

\* str.replace(/\/$/, '')
stripTrailingSlash(s) ==
  IF Len(s) > 0 /\ s[Len(s)] = "/" THEN SubSeq(s, 1, Len(s) - 1) ELSE s

\* normalize of the redirect handler: the three replacements, in the code's
\* order, and then toLowerCase.
normalize(str) == toLowerCase(stripTrailingSlash(stripWww(stripProtocol(str))))

\* The handler's isAllowed for a configured partner domain and a referrer.
isAllowed(partnerDomain, referrer) ==
  LET normalizedPartner == normalize(partnerDomain)
      normalizedRef == normalize(referrer)
  IN \/ normalizedRef = normalizedPartner
     \/ startsWith(normalizedRef, normalizedPartner \o Str_slash)
     \/ includes(normalizedRef, normalizedPartner)

\* ------------------------------------------------------- request identity
Str_empty   == <<>>
Str_Unknown == <<"U","n","k","n","o","w","n">>
Str_Direct  == <<"D","i","r","e","c","t">>
Str_Local   == <<"L","o","c","a","l">>

\* The part of s before its first comma (element 0 of s.split(',')).
firstField(s) ==
  IF \E i \in DOMAIN s : s[i] = ","
  THEN SubSeq(s, 1, (CHOOSE i \in DOMAIN s :
                       s[i] = "," /\ \A j \in 1..(i - 1) : s[j] # ",") - 1)
  ELSE s

\* String.prototype.trim, for the blanks that occur in header values.
RECURSIVE trim(_)
trim(s) ==
  IF Len(s) > 0 /\ s[1] = " " THEN trim(Tail(s))
  ELSE IF Len(s) > 0 /\ s[Len(s)] = " " THEN trim(SubSeq(s, 1, Len(s) - 1))
  ELSE s

\* Mutant of getRealIP: x-real-ip is consulted before x-forwarded-for.
getRealIP_realIpFirst(headers) ==
  IF headers.xRealIp # <<>> THEN headers.xRealIp
  ELSE IF headers.xForwardedFor # <<>>
  THEN trim(firstField(headers.xForwardedFor))
  ELSE IF headers.cfConnectingIp # <<>> THEN headers.cfConnectingIp
  ELSE IF headers.remoteAddress # <<>> THEN headers.remoteAddress
  ELSE <<"U","n","k","n","o","w","n">>

\* getRealIP. An absent header is the empty string: the code tests every
\* header for truthiness, which an absent and an empty value both fail.
getRealIP(headers) ==
  IF headers.xForwardedFor # Str_empty
  THEN trim(firstField(headers.xForwardedFor))
  ELSE IF headers.xRealIp # Str_empty THEN headers.xRealIp
  ELSE IF headers.cfConnectingIp # Str_empty THEN headers.cfConnectingIp
  ELSE IF headers.remoteAddress # Str_empty THEN headers.remoteAddress
  ELSE Str_Unknown

\* const userAgent = req.headers['user-agent'] || 'Unknown'
userAgentOf(headers) ==
  IF headers.userAgent # Str_empty THEN headers.userAgent ELSE Str_Unknown

\* Mutant of referrerOf: a request without referrer header has the empty
\* referrer.
referrerOf_noDefault(headers) ==
  IF headers.referer # <<>> THEN headers.referer ELSE headers.referrer

\* const referrer = (req.headers['referer'] || req.headers['referrer'] || 'Direct')
referrerOf(headers) ==
  IF headers.referer # Str_empty THEN headers.referer
  ELSE IF headers.referrer # Str_empty THEN headers.referrer
  ELSE Str_Direct

\* ------------------------------------------------------------ geolocation
Str_127     == <<"1","2","7",".","0",".","0",".","1">>
Str_v6loop  == <<":",":","1">>
Str_192168  == <<"1","9","2",".","1","6","8">>
Str_10dot   == <<"1","0",".">>
Str_17216   == <<"1","7","2",".","1","6">>
Str_17231   == <<"1","7","2",".","3","1">>
Str_ffff    == <<":",":","f","f","f","f",":">>

\* The "Skip local IPs" condition of getLocationFromIP.
isLocalIP(ip) ==
  \/ ip = Str_empty
  \/ ip = Str_127
  \/ ip = Str_v6loop
  \/ ip = Str_Unknown
  \/ startsWith(ip, Str_192168)
  \/ startsWith(ip, Str_10dot)
  \/ startsWith(ip, Str_17216)
  \/ startsWith(ip, Str_17231)
  \/ includes(ip, Str_ffff \o Str_127)
  \/ includes(ip, Str_v6loop)

LocalLocation   == [country |-> Str_Local, city |-> Str_Local, region |-> Str_Local]
UnknownLocation == [country |-> Str_Unknown, city |-> Str_Unknown,
                    region |-> Str_Unknown]

\* data.x || 'Unknown'
orUnknown(s) == IF s # Str_empty THEN s ELSE Str_Unknown

\* What getLocationFromIP returns once response.json() has delivered data.
locationOfData(data) ==
  IF data.status = "success"
  THEN [country |-> orUnknown(data.country), city |-> orUnknown(data.city),
        region |-> orUnknown(data.regionName)]
  ELSE UnknownLocation

\* --------------------------------------------------------- user agent
Str_mobile  == <<"m","o","b","i","l","e">>
Str_tablet  == <<"t","a","b","l","e","t">>
Str_chrome  == <<"c","h","r","o","m","e">>
Str_edg     == <<"e","d","g">>
Str_safari  == <<"s","a","f","a","r","i">>
Str_firefox == <<"f","i","r","e","f","o","x">>
Str_opera   == <<"o","p","e","r","a">>
Str_opr     == <<"o","p","r">>
Str_windows == <<"w","i","n","d","o","w","s">>
Str_mac     == <<"m","a","c">>
Str_linux   == <<"l","i","n","u","x">>
Str_android == <<"a","n","d","r","o","i","d">>
Str_iphone  == <<"i","p","h","o","n","e">>
Str_ipad    == <<"i","p","a","d">>

\* Mutant of parseUserAgent: the Safari rule is tried first and does not ask
\* for the absence of "chrome".
parseUserAgent_safariFirst(userAgent) ==
  LET ua == toLowerCase(userAgent)
  IN [ device  |-> "Desktop",
       browser |-> IF includes(ua, Str_safari) THEN "Safari"
                   ELSE IF includes(ua, Str_chrome) /\ ~includes(ua, Str_edg)
                   THEN "Chrome"
                   ELSE IF includes(ua, Str_firefox) THEN "Firefox"
                   ELSE IF includes(ua, Str_edg) THEN "Edge"
                   ELSE IF includes(ua, Str_opera) \/ includes(ua, Str_opr)
                   THEN "Opera"
                   ELSE "Unknown",
       os      |-> "Unknown" ]

\* parseUserAgent: the three if/else-if chains over the lower-cased string.
parseUserAgent(userAgent) ==
  LET ua == toLowerCase(userAgent)
  IN [ device  |-> IF includes(ua, Str_mobile) THEN "Mobile"
                   ELSE IF includes(ua, Str_tablet) THEN "Tablet"
                   ELSE "Desktop",
       browser |-> IF includes(ua, Str_chrome) /\ ~includes(ua, Str_edg)
                   THEN "Chrome"
                   ELSE IF includes(ua, Str_safari) /\ ~includes(ua, Str_chrome)
                   THEN "Safari"
                   ELSE IF includes(ua, Str_firefox) THEN "Firefox"
                   ELSE IF includes(ua, Str_edg) THEN "Edge"
                   ELSE IF includes(ua, Str_opera) \/ includes(ua, Str_opr)
                   THEN "Opera"
                   ELSE "Unknown",
       os      |-> IF includes(ua, Str_windows) THEN "Windows"
                   ELSE IF includes(ua, Str_mac) THEN "macOS"
                   ELSE IF includes(ua, Str_linux) THEN "Linux"
                   ELSE IF includes(ua, Str_android) THEN "Android"
                   ELSE IF includes(ua, Str_iphone) \/ includes(ua, Str_ipad)
                   THEN "iOS"
                   ELSE "Unknown" ]

\* ------------------------------------------------------------------ inputs
Codes == {"abc"}

Reqs == 1..MaxReq

Instants == 0..MaxTime

Str_target   == <<"h","t","t","p",":","/","/","t",".","i","o">>
Str_notAUrl  == <<"f","t","p",":","/","/","t">>
Str_partner  == <<"e","x","a","m","p","l","e",".","c","o","m">>
Str_refPartner ==
  <<"h","t","t","p","s",":","/","/","w","w","w",".","e","x","a","m","p","l","e",".","c","o","m","/","p","a","g","e">>
Str_refOther == <<"h","t","t","p",":","/","/","e","v","i","l",".","i","o","/">>
Str_ipPublic == <<"8",".","8",".","8",".","8">>
Str_xffLocal == <<"1","0",".","0",".","0",".","9",","," ","8",".","8",".","8",".","8">>
Str_uaChrome == <<"C","h","r","o","m","e","/","9"," ","S","a","f","a","r","i">>

NoHeaders == [xForwardedFor |-> Str_empty, xRealIp |-> Str_empty,
              cfConnectingIp |-> Str_empty, remoteAddress |-> Str_empty,
              userAgent |-> Str_empty, referer |-> Str_empty,
              referrer |-> Str_empty]

\* The request headers the model sends: a direct visit from a private
\* address behind a proxy, a visit from the partner's page, and a visit from
\* another site.
HeaderInputs ==
  { [NoHeaders EXCEPT !.xForwardedFor = Str_xffLocal, !.userAgent = Str_uaChrome],
    [NoHeaders EXCEPT !.remoteAddress = Str_ipPublic, !.referer = Str_refPartner],
    [NoHeaders EXCEPT !.xRealIp = Str_ipPublic, !.referer = Str_refOther] }

UrlInputs == {Str_target, Str_notAUrl}

PartnerDomainInputs == {Str_partner}

\* partner_id of a request to /api/shorten: none, or an id (whose partner
\* need not exist: the column has no foreign key).
PartnerIdInputs == {{}} \cup {{i} : i \in 1..MaxPartners}

\* expires_at of a request to /api/shorten: none, or an instant.
ExpiresAtInputs == {{}} \cup {{t} : t \in Instants}

\* The JSON documents the geolocation provider answers with.
ProviderData ==
  { [status |-> "success", country |-> <<"D","E">>, city |-> <<"B">>,
     regionName |-> Str_empty],
    [status |-> "fail", country |-> Str_empty, city |-> Str_empty,
     regionName |-> Str_empty] }

\* ------------------------------------------------------------------- state
VARIABLES
  now,          \* the current instant (new Date(), NOW())
  partners,     \* table partners: a sequence of rows, id = position (SERIAL)
  urls,         \* table urls: a set of rows, code is the primary key
  clicks,       \* table clicks: a sequence of rows in insertion order
  bypass_logs,  \* table bypass_logs: a sequence of rows in insertion order
  pc,           \* per request: where its handler is suspended
  req,          \* per request: code and headers
  result,       \* per request: what the lookup query returned, until handled
  res,          \* per request: the responses sent, in order
  bg,           \* per request: the background continuation
  issued        \* per request: the operations it issued, in program order

vars == <<now, partners, urls, clicks, bypass_logs, pc, req, result, res, bg,
          issued>>

NoReq    == [code |-> "", headers |-> NoHeaders]
NoResult == [error |-> FALSE, rows |-> {}]
NoBg     == [pc |-> "none", location |-> UnknownLocation]

Init ==
  /\ now = 0
  /\ partners = <<>>
  /\ urls = {}
  /\ clicks = <<>>
  /\ bypass_logs = <<>>
  /\ pc = [r \in Reqs |-> "idle"]
  /\ req = [r \in Reqs |-> NoReq]
  /\ result = [r \in Reqs |-> NoResult]
  /\ res = [r \in Reqs |-> <<>>]
  /\ bg = [r \in Reqs |-> NoBg]
  /\ issued = [r \in Reqs |-> <<>>]

\* ---------------------------------------------------------------- datastore
\* SELECT u.*, p.domain as partner_domain FROM urls u LEFT JOIN partners p
\* ON u.partner_id = p.id WHERE u.code = $1
\* (partner_domain NULL is the empty string: the handler tests it for
\* truthiness only; of u.* the result keeps the columns the handler reads).
partnerDomainOf(u) ==
  IF \E i \in u.partner_id : i \in DOMAIN partners
  THEN partners[CHOOSE i \in u.partner_id : i \in DOMAIN partners].domain
  ELSE Str_empty

\* Mutant of findLinkWithPartner: the lookup answers without the partner and
\* the expiry the link has now.
findLinkWithPartner_stale(code) ==
  { [code |-> u.code, url |-> u.url, expires_at |-> {},
     partner_domain |-> <<>>] : u \in {v \in urls : v.code = code} }

findLinkWithPartner(code) ==
  { [code |-> u.code, url |-> u.url, expires_at |-> u.expires_at,
     partner_domain |-> partnerDomainOf(u)] : u \in {v \in urls : v.code = code} }

\* Mutant of fkHolds: the tables have no foreign key on code.
fkHolds_unconstrained(code) == TRUE

\* code REFERENCES urls(code): an insert into clicks or bypass_logs is
\* rejected when no urls row has the code.
fkHolds(code) == \E u \in urls : u.code = code

\* Mutant of cascade: the deletion of a link leaves the rows of its code.
cascade_keepsRows(rows, code) == rows

\* ON DELETE CASCADE: the rows of a table that survive the deletion of code.
cascade(rows, code) == SelectSeq(rows, LAMBDA x : x.code # code)

\* Mutant of incrementClickCount: the update adds 2.
incrementClickCount_by2(code) ==
  { IF u.code = code THEN [u EXCEPT !.clicks = u.clicks + 2] ELSE u : u \in urls }

\* UPDATE urls SET clicks = clicks + 1 WHERE code = $1
incrementClickCount(code) ==
  { IF u.code = code THEN [u EXCEPT !.clicks = u.clicks + 1] ELSE u : u \in urls }

\* ------------------------------------------------------- admin operations
\* url.match(/^https?:\/\/.+/)
validUrl(url) ==
  \/ startsWith(url, Str_https) /\ Len(url) > Len(Str_https)
  \/ startsWith(url, Str_http) /\ Len(url) > Len(Str_http)

\* POST /api/partners: name and domain are required; the row gets the next id.
CreatePartner(domain) ==
  /\ domain # Str_empty
  /\ Len(partners) < MaxPartners
  /\ partners' = Append(partners, [domain |-> domain])
  /\ UNCHANGED <<now, urls, clicks, bypass_logs, pc, req, result, res, bg, issued>>

\* POST /api/shorten with a custom code, at its INSERT: the URL passed the
\* scheme check, and a code that exists is refused (409 from the uniqueness
\* query, or the primary key). clicks starts at 0.
Shorten(code, url, partnerId, expiresAt) ==
  /\ validUrl(url)
  /\ ~\E u \in urls : u.code = code
  /\ urls' = urls \cup { [code |-> code, url |-> url, clicks |-> 0,
                          partner_id |-> partnerId, expires_at |-> expiresAt] }
  /\ UNCHANGED <<now, partners, clicks, bypass_logs, pc, req, result, res, bg,
                 issued>>

\* DELETE /api/urls/:code: DELETE FROM urls WHERE code = $1, cascading to
\* clicks and bypass_logs; 404 when no row was deleted.
DeleteUrl(code) ==
  /\ \E u \in urls : u.code = code
  /\ urls' = {u \in urls : u.code # code}
  /\ clicks' = cascade(clicks, code)
  /\ bypass_logs' = cascade(bypass_logs, code)
  /\ UNCHANGED <<now, partners, pc, req, result, res, bg, issued>>

\* Time passes.
Tick ==
  /\ now < MaxTime
  /\ now' = now + 1
  /\ UNCHANGED <<partners, urls, clicks, bypass_logs, pc, req, result, res, bg,
                 issued>>

\* ----------------------------------------------------------- GET /:code
\* Mutant of bypassResponse: the warning page is sent without status(403).
bypassResponse_noStatus ==
  [status |-> 200, page |-> "bypassDetected", targetUrl |-> <<>>]

\* Mutant of notFoundResponse: the page is sent without status(404).
notFoundResponse_noStatus ==
  [status |-> 200, page |-> "notFound", targetUrl |-> <<>>]

\* Mutant of isExpired: a link expires at its expiry instant already.
isExpired_orEqual(urlData, t) == \E e \in urlData.expires_at : e <= t

\* Mutant of bypassDetected: a visit without referrer is always a bypass.
bypassDetected_direct(urlData, referrer) ==
  \/ referrer = <<"D","i","r","e","c","t">>
  \/ /\ urlData.partner_domain # <<>>
     /\ ~isAllowed(urlData.partner_domain, referrer)

\* Mutant of redirectResponse: the interstitial does not embed the target.
redirectResponse_noTarget(targetUrl) ==
  [status |-> 200, page |-> "verifying", targetUrl |-> <<>>]

\* Mutant of errorResponse: the catch sends its message without status(500).
errorResponse_noStatus ==
  [status |-> 200, page |-> "Internal server error", targetUrl |-> <<>>]

\* The bodies res.send is given: the page, and the target URL the page
\* embeds (only the interstitial embeds one).
notFoundResponse == [status |-> 404, page |-> "notFound", targetUrl |-> Str_empty]
expiredResponse  == [status |-> 410, page |-> "expired", targetUrl |-> Str_empty]
bypassResponse   == [status |-> 403, page |-> "bypassDetected",
                     targetUrl |-> Str_empty]
errorResponse    == [status |-> 500, page |-> "Internal server error",
                     targetUrl |-> Str_empty]
redirectResponse(targetUrl) ==
  [status |-> 200, page |-> "verifying", targetUrl |-> targetUrl]

\* expiresAt && new Date(expiresAt) < new Date()
isExpired(urlData, t) == \E e \in urlData.expires_at : e < t

\* Mutant of bypassDetected: a one-time verification. Once a request has
\* been answered 200, later requests are not checked.
bypassDetected_verifiedOnce(urlData, referrer) ==
  /\ urlData.partner_domain # <<>>
  /\ ~isAllowed(urlData.partner_domain, referrer)
  /\ ~\E q \in Reqs : \E i \in DOMAIN res[q] : res[q][i].status = 200

\* if (partnerDomain) { ... if (!isAllowed) ... }
bypassDetected(urlData, referrer) ==
  /\ urlData.partner_domain # Str_empty
  /\ ~isAllowed(urlData.partner_domain, referrer)

\* The row a click insert of request r writes. by is the inserting request:
\* it stands for the row's id, which no two rows share.
clickRow(r, location) ==
  LET headers == req[r].headers
      ua == parseUserAgent(userAgentOf(headers))
  IN [code |-> req[r].code, ip_address |-> getRealIP(headers),
      country |-> location.country, city |-> location.city,
      region |-> location.region, user_agent |-> userAgentOf(headers),
      device |-> ua.device, browser |-> ua.browser, os |-> ua.os,
      referrer |-> referrerOf(headers), by |-> r]

bypassRow(r) ==
  LET headers == req[r].headers
  IN [code |-> req[r].code, referrer |-> referrerOf(headers),
      ip_address |-> getRealIP(headers), user_agent |-> userAgentOf(headers),
      by |-> r]

\* The request arrives and the handler issues the lookup query. Requests are
\* numbered in their order of arrival.
Arrive(r, code, headers) ==
  /\ pc[r] = "idle"
  /\ \A q \in 1..(r - 1) : pc[q] # "idle"
  /\ pc' = [pc EXCEPT ![r] = "lookup"]
  /\ req' = [req EXCEPT ![r] = [code |-> code, headers |-> headers]]
  /\ issued' = [issued EXCEPT ![r] = <<"lookup">>]
  /\ UNCHANGED <<now, partners, urls, clicks, bypass_logs, result, res, bg>>

\* The datastore runs the lookup query, or fails.
DbLookup(r, ok) ==
  /\ pc[r] = "lookup"
  /\ pc' = [pc EXCEPT ![r] = "lookedUp"]
  /\ result' = [result EXCEPT ![r] =
                  IF ok THEN [error |-> FALSE, rows |-> findLinkWithPartner(req[r].code)]
                  ELSE [error |-> TRUE, rows |-> {}]]
  /\ UNCHANGED <<now, partners, urls, clicks, bypass_logs, req, res, bg, issued>>

\* Mutant of startBackground: the click insert of a local address is issued
\* before the response is sent.
startBackground_inline(ip) ==
  IF isLocalIP(ip)
  THEN [bg |-> [pc |-> "insert", location |-> LocalLocation],
        before |-> <<"getLocation", "insertClick">>, after |-> <<>>]
  ELSE [bg |-> [pc |-> "fetch", location |-> UnknownLocation],
        before |-> <<"getLocation", "fetch">>, after |-> <<>>]

\* Mutant of startBackground: the allowed path never calls getLocationFromIP.
startBackground_unscheduled(ip) ==
  [bg |-> NoBg, before |-> <<>>, after |-> <<>>]

\* getLocationFromIP(ip).then(...) up to the function's first await, as an
\* allowed request calls it: a local address returns at once, any other
\* issues the fetch. The callback attached with .then runs once the handler
\* has returned, so the click insert of a local address is issued after
\* res.send. before and after are the operations issued before and after
\* res.send in the same turn of the event loop.
startBackground(ip) ==
  IF isLocalIP(ip)
  THEN [bg |-> [pc |-> "insert", location |-> LocalLocation],
        before |-> <<"getLocation">>, after |-> <<"insertClick">>]
  ELSE [bg |-> [pc |-> "fetch", location |-> UnknownLocation],
        before |-> <<"getLocation", "fetch">>, after |-> <<>>]

\* The handler resumes with the lookup's outcome and runs to its next await
\* or to its response. Nothing that runs later reads result or urlData, so
\* the model forgets them here.
HandleLookup(r) ==
  /\ pc[r] = "lookedUp"
  /\ IF result[r].error
     THEN \* catch (err): 500
          /\ pc' = [pc EXCEPT ![r] = "done"]
          /\ res' = [res EXCEPT ![r] = Append(@, errorResponse)]
          /\ issued' = [issued EXCEPT ![r] = Append(@, "send500")]
          /\ UNCHANGED bg
     ELSE IF result[r].rows = {}
     THEN /\ pc' = [pc EXCEPT ![r] = "done"]
          /\ res' = [res EXCEPT ![r] = Append(@, notFoundResponse)]
          /\ issued' = [issued EXCEPT ![r] = Append(@, "send404")]
          /\ UNCHANGED bg
     ELSE LET urlData == CHOOSE x \in result[r].rows : TRUE
              start == startBackground(getRealIP(req[r].headers))
          IN IF isExpired(urlData, now)
             THEN /\ pc' = [pc EXCEPT ![r] = "done"]
                  /\ res' = [res EXCEPT ![r] = Append(@, expiredResponse)]
                  /\ issued' = [issued EXCEPT ![r] = Append(@, "send410")]
                  /\ UNCHANGED bg
             ELSE IF bypassDetected(urlData, referrerOf(req[r].headers))
             THEN /\ pc' = [pc EXCEPT ![r] = "bypassInsert"]
                  /\ issued' = [issued EXCEPT ![r] = Append(@, "insertBypass")]
                  /\ UNCHANGED <<res, bg>>
             ELSE /\ pc' = [pc EXCEPT ![r] = "done"]
                  /\ bg' = [bg EXCEPT ![r] = start.bg]
                  /\ res' = [res EXCEPT ![r] = Append(@, redirectResponse(urlData.url))]
                  /\ issued' = [issued EXCEPT ![r] =
                                  @ \o start.before \o <<"send200">> \o start.after]
  /\ result' = [result EXCEPT ![r] = NoResult]
  /\ UNCHANGED <<now, partners, urls, clicks, bypass_logs, req>>

\* The datastore runs the bypass_logs insert (rejected when the link is gone,
\* or failing otherwise); the handler logs a failure and sends the 403 page.
DbInsertBypass(r, ok) ==
  /\ pc[r] = "bypassInsert"
  /\ pc' = [pc EXCEPT ![r] = "done"]
  /\ bypass_logs' = IF ok /\ fkHolds(req[r].code)
                    THEN Append(bypass_logs, bypassRow(r))
                    ELSE bypass_logs
  /\ res' = [res EXCEPT ![r] = Append(@, bypassResponse)]
  /\ issued' = [issued EXCEPT ![r] = Append(@, "send403")]
  /\ UNCHANGED <<now, partners, urls, clicks, req, result, bg>>

\* ------------------------------------------------ background continuation
\* The callback given to .then: it issues the click insert with the location
\* getLocationFromIP returned.
thenCallback(r, location) ==
  /\ bg' = [bg EXCEPT ![r] = [pc |-> "insert", location |-> location]]
  /\ issued' = [issued EXCEPT ![r] = Append(@, "insertClick")]

\* The 5 second timer fires while fetch is pending: controller.abort(), the
\* fetch rejects with AbortError, the catch returns the Unknown triple.
FetchAbort(r) ==
  /\ bg[r].pc = "fetch"
  /\ thenCallback(r, UnknownLocation)
  /\ UNCHANGED <<now, partners, urls, clicks, bypass_logs, pc, req, result, res>>

\* fetch rejects for a transport error; the catch returns the Unknown triple.
FetchReject(r) ==
  /\ bg[r].pc = "fetch"
  /\ thenCallback(r, UnknownLocation)
  /\ UNCHANGED <<now, partners, urls, clicks, bypass_logs, pc, req, result, res>>

\* fetch resolves with the response headers: clearTimeout(timeout), and the
\* function awaits response.json() with no timer armed.
FetchResolve(r) ==
  /\ bg[r].pc = "fetch"
  /\ bg' = [bg EXCEPT ![r].pc = "body"]
  /\ UNCHANGED <<now, partners, urls, clicks, bypass_logs, pc, req, result, res,
                 issued>>

\* response.json() resolves with the provider's document.
JsonResolve(r, data) ==
  /\ bg[r].pc = "body"
  /\ thenCallback(r, locationOfData(data))
  /\ UNCHANGED <<now, partners, urls, clicks, bypass_logs, pc, req, result, res>>

\* response.json() rejects (a body that is no JSON, a transport error).
JsonReject(r) ==
  /\ bg[r].pc = "body"
  /\ thenCallback(r, UnknownLocation)
  /\ UNCHANGED <<now, partners, urls, clicks, bypass_logs, pc, req, result, res>>

\* Whether the datastore accepts the click insert of a request for code.
insertAccepted(ok, code) == ok /\ fkHolds(code)

\* Mutant of afterInsert: the counter update is issued after a failed insert
\* too.
afterInsert_ignoreFailure(accepted) ==
  [pc |-> "update",
   issued |-> <<IF accepted THEN "insertClick.ok" ELSE "insertClick.failed",
                "updateClicks">>]

\* Mutant of afterInsert: a failed insert is issued again.
afterInsert_retry(accepted) ==
  IF accepted
  THEN [pc |-> "update", issued |-> <<"insertClick.ok", "updateClicks">>]
  ELSE [pc |-> "insert", issued |-> <<"insertClick.failed", "insertClick">>]

\* Mutant of afterInsert: the counter update is issued twice after a
\* successful insert.
afterInsert_updateTwice(accepted) ==
  IF accepted
  THEN [pc |-> "update",
        issued |-> <<"insertClick.ok", "updateClicks", "updateClicks">>]
  ELSE [pc |-> "done", issued |-> <<"insertClick.failed">>]

\* What the callback does when its insert has settled: it issues the counter
\* update after a success, and logs and stops after a failure.
afterInsert(accepted) ==
  IF accepted
  THEN [pc |-> "update", issued |-> <<"insertClick.ok", "updateClicks">>]
  ELSE [pc |-> "done", issued |-> <<"insertClick.failed">>]

\* The datastore runs the click insert, or fails.
DbInsertClick(r, ok) ==
  /\ bg[r].pc = "insert"
  /\ LET accepted == insertAccepted(ok, req[r].code)
         next == afterInsert(accepted)
     IN /\ clicks' = IF accepted
                     THEN Append(clicks, clickRow(r, bg[r].location))
                     ELSE clicks
        /\ bg' = [bg EXCEPT ![r].pc = next.pc]
        /\ issued' = [issued EXCEPT ![r] = @ \o next.issued]
  /\ UNCHANGED <<now, partners, urls, bypass_logs, pc, req, result, res>>

\* How the counter update of a request for code ends: it raised the counter,
\* it matched no row (the link is gone; the code does not look at the row
\* count), or it failed.
updateOutcome(ok, code) ==
  IF ~ok THEN "updateClicks.failed"
  ELSE IF fkHolds(code) THEN "updateClicks.ok"
  ELSE "updateClicks.norow"

\* The datastore runs the counter update, or fails; the callback logs a
\* failure and ends.
DbUpdateClicks(r, ok) ==
  /\ bg[r].pc = "update"
  /\ urls' = IF ok THEN incrementClickCount(req[r].code) ELSE urls
  /\ bg' = [bg EXCEPT ![r].pc = "done"]
  /\ issued' = [issued EXCEPT ![r] = Append(@, updateOutcome(ok, req[r].code))]
  /\ UNCHANGED <<now, partners, clicks, bypass_logs, pc, req, result, res>>

\* ------------------------------------------------------------ specification
Next ==
  \/ Tick
  \/ \E d \in PartnerDomainInputs : CreatePartner(d)
  \/ \E c \in Codes, u \in UrlInputs, p \in PartnerIdInputs, e \in ExpiresAtInputs :
       Shorten(c, u, p, e)
  \/ \E c \in Codes : DeleteUrl(c)
  \/ \E r \in Reqs, c \in Codes, h \in HeaderInputs : Arrive(r, c, h)
  \/ \E r \in Reqs, ok \in BOOLEAN : DbLookup(r, ok)
  \/ \E r \in Reqs : HandleLookup(r)
  \/ \E r \in Reqs, ok \in BOOLEAN : DbInsertBypass(r, ok)
  \/ \E r \in Reqs : FetchAbort(r)
  \/ \E r \in Reqs : FetchReject(r)
  \/ \E r \in Reqs : FetchResolve(r)
  \/ \E r \in Reqs, d \in ProviderData : JsonResolve(r, d)
  \/ \E r \in Reqs : JsonReject(r)
  \/ \E r \in Reqs, ok \in BOOLEAN : DbInsertClick(r, ok)
  \/ \E r \in Reqs, ok \in BOOLEAN : DbUpdateClicks(r, ok)

Spec == Init /\ [][Next]_vars

\* The same behaviours under the one progress guarantee getLocationFromIP
\* arms: while its fetch is pending, the 5 second timer fires and aborts it.
\* The timer is cleared as soon as fetch resolves, so nothing bounds the wait
\* for response.json().
LiveSpec == Spec /\ \A r \in Reqs : WF_vars(FetchAbort(r))

\* ------------------------------------------- getLocationFromIP on its own
\* The addresses getLocationFromIP is given: loopback forms, addresses of
\* the three private ranges and next to them, and public addresses.
IpInputs ==
  { <<"1","2","7",".","0",".","0",".","1">>,
    <<":",":","1">>,
    <<":",":","f","f","f","f",":","1","2","7",".","0",".","0",".","1">>,
    <<"1","7","2",".","1","6","0",".","0",".","1">>,
    <<"1","0",".","1",".","2",".","3">>,
    <<"1","9","2",".","1","6","8",".","1",".","5">>,
    <<"1","7","2",".","1","6",".","0",".","1">>,
    <<"1","7","2",".","2","0",".","0",".","1">>,
    <<"1","7","2",".","3","1",".","2","5","5",".","2","5","5">>,
    <<"1","7","2",".","3","2",".","0",".","1">>,
    <<"8",".","8",".","8",".","8">>,
    <<":",":","f","f","f","f",":","8",".","8",".","8",".","8">> }

\* A link without partner or expiry, and the row a lookup returns for it.
PlainLink == [code |-> "abc", url |-> Str_target, clicks |-> 0,
              partner_id |-> {}, expires_at |-> {}]
PlainRow  == [code |-> "abc", url |-> Str_target, expires_at |-> {},
              partner_domain |-> Str_empty]

\* Every request has looked the plain link up and comes from one of the
\* addresses; the handler of each then runs to res.send, calling
\* getLocationFromIP(ip) on its way.
GeoInit ==
  /\ now = 0
  /\ partners = <<>>
  /\ urls = {PlainLink}
  /\ clicks = <<>>
  /\ bypass_logs = <<>>
  /\ pc = [r \in Reqs |-> "lookedUp"]
  /\ req \in [Reqs -> {[code |-> "abc",
                         headers |-> [NoHeaders EXCEPT !.remoteAddress = ip]] :
                        ip \in IpInputs}]
  /\ result = [r \in Reqs |-> [error |-> FALSE, rows |-> {PlainRow}]]
  /\ res = [r \in Reqs |-> <<>>]
  /\ bg = [r \in Reqs |-> NoBg]
  /\ issued = [r \in Reqs |-> <<"lookup">>]

GeoNext == \E r \in Reqs : HandleLookup(r)

GeoSpec == GeoInit /\ [][GeoNext]_vars

\* ------------------------------------------- the referrer policy on its own
\* Spellings of the partner's domain and of referrers: with and without
\* protocol, www., trailing slash, and in other letter case.
PartnerSpellings ==
  { <<"e","x","a","m","p","l","e",".","c","o","m">>,
    <<"h","t","t","p","s",":","/","/","e","x","a","m","p","l","e",".","c","o","m">>,
    <<"w","w","w",".","e","x","a","m","p","l","e",".","c","o","m">>,
    <<"e","x","a","m","p","l","e",".","c","o","m","/">>,
    <<"E","x","a","m","p","l","e",".","C","O","M">>,
    <<"W","W","W",".","e","x","a","m","p","l","e",".","c","o","m">> }
ReferrerSpellings ==
  { <<"h","t","t","p","s",":","/","/","w","w","w",".","e","x","a","m","p","l","e",".","c","o","m","/","p","a","g","e">>,
    <<"h","t","t","p",":","/","/","e","x","a","m","p","l","e",".","c","o","m","/","p","a","g","e">>,
    <<"H","T","T","P","S",":","/","/","W","W","W",".","E","X","A","M","P","L","E",".","C","O","M","/","p","a","g","e">>,
    <<"h","t","t","p","s",":","/","/","e","x","a","m","p","l","e",".","c","o","m">>,
    <<"h","t","t","p",":","/","/","e","v","i","l",".","i","o","/">>,
    <<"e","v","i","l",".","i","o">> }

\* Partner r is the partner of the row request r's lookup returned (the link
\* has since been created again with the other partner); every request
\* carries a referrer. The handler of each then runs the policy.
PolicyInit ==
  /\ now = 0
  /\ partners \in [Reqs -> [domain : PartnerSpellings]]
  /\ urls = {[PlainLink EXCEPT !.partner_id = {MaxReq}]}
  /\ clicks = <<>>
  /\ bypass_logs = <<>>
  /\ pc = [r \in Reqs |-> "lookedUp"]
  /\ req \in [Reqs -> {[code |-> "abc",
                         headers |-> [NoHeaders EXCEPT !.remoteAddress = Str_ipPublic,
                                                       !.referer = ref]] :
                        ref \in ReferrerSpellings}]
  /\ result = [r \in Reqs |->
                 [error |-> FALSE,
                  rows |-> {[PlainRow EXCEPT !.partner_domain = partners[r].domain]}]]
  /\ res = [r \in Reqs |-> <<>>]
  /\ bg = [r \in Reqs |-> NoBg]
  /\ issued = [r \in Reqs |-> <<"lookup">>]

PolicyNext == \E r \in Reqs : HandleLookup(r)

PolicySpec == PolicyInit /\ [][PolicyNext]_vars

\* ------------------------------------------------- parseUserAgent on its own
\* User-agent headers: browsers in several letter cases, strings that match
\* more than one rule, a string that matches none, and no header.
UserAgentInputs ==
  { <<"M","o","z","i","l","l","a","/","5",".","0"," ","C","h","r","o","m","e","/","9","1",".","0"," ","S","a","f","a","r","i","/","5","3","7",".","3","6">>,
    <<"M","o","z","i","l","l","a","/","5",".","0"," ","S","a","f","a","r","i","/","6","0","5">>,
    <<"F","I","R","E","F","O","X","/","8","9">>,
    <<"C","h","r","o","m","e","/","9","1"," ","S","a","f","a","r","i","/","5","3","7"," ","E","d","g","/","9","1">>,
    <<"O","p","e","r","a","/","9",".","8">>,
    <<"O","P","R","/","7","7">>,
    <<"c","u","r","l","/","7">>,
    <<"S","A","F","A","R","I"," ","F","i","r","e","f","o","x">>,
    <<"f","i","r","e","f","o","x"," ","o","p","e","r","a">>,
    <<"E","d","g"," ","e","d","g","e">>,
    Str_empty }

\* Every request has looked the plain link up and comes from a private
\* address with one of the user agents; its handler classifies the user
\* agent and responds, and its background task stores the click row.
AgentInit ==
  /\ now = 0
  /\ partners = <<>>
  /\ urls = {PlainLink}
  /\ clicks = <<>>
  /\ bypass_logs = <<>>
  /\ pc = [r \in Reqs |-> "lookedUp"]
  /\ req \in [Reqs -> {[code |-> "abc",
                         headers |-> [NoHeaders EXCEPT !.xForwardedFor = Str_xffLocal,
                                                       !.userAgent = ua]] :
                        ua \in UserAgentInputs}]
  /\ result = [r \in Reqs |-> [error |-> FALSE, rows |-> {PlainRow}]]
  /\ res = [r \in Reqs |-> <<>>]
  /\ bg = [r \in Reqs |-> NoBg]
  /\ issued = [r \in Reqs |-> <<"lookup">>]

AgentNext ==
  \/ \E r \in Reqs : HandleLookup(r)
  \/ \E r \in Reqs, ok \in BOOLEAN : DbInsertClick(r, ok)

AgentSpec == AgentInit /\ [][AgentNext]_vars

\* ------------------------------------------------------ getRealIP on its own
Str_ipReal   == <<"4",".","4",".","4",".","4">>
Str_ipCf     == <<"5",".","5",".","5",".","5">>
Str_ipSocket == <<"6",".","6",".","6",".","6">>
Str_xffBlanks     == <<" ","2",".","2",".","2",".","2"," ",",","3",".","3",".","3",".","3">>
Str_xffEmptyFirst == <<","," ","1",".","2",".","3",".","4">>

\* Requests with every source of the address absent, with one source, and
\* with several; x-forwarded-for as one address, as a list, with blanks
\* around its first entry, and with an empty first entry.
AddressHeaderInputs ==
  { NoHeaders,
    [NoHeaders EXCEPT !.remoteAddress = Str_ipSocket],
    [NoHeaders EXCEPT !.cfConnectingIp = Str_ipCf],
    [NoHeaders EXCEPT !.cfConnectingIp = Str_ipCf, !.remoteAddress = Str_ipSocket],
    [NoHeaders EXCEPT !.xRealIp = Str_ipReal],
    [NoHeaders EXCEPT !.xRealIp = Str_ipReal, !.remoteAddress = Str_ipSocket],
    [NoHeaders EXCEPT !.xRealIp = Str_ipReal, !.cfConnectingIp = Str_ipCf, !.remoteAddress = Str_ipSocket],
    [NoHeaders EXCEPT !.xForwardedFor = Str_ipPublic],
    [NoHeaders EXCEPT !.xForwardedFor = Str_ipPublic, !.xRealIp = Str_ipReal, !.cfConnectingIp = Str_ipCf, !.remoteAddress = Str_ipSocket],
    [NoHeaders EXCEPT !.xForwardedFor = Str_xffLocal, !.xRealIp = Str_ipReal],
    [NoHeaders EXCEPT !.xForwardedFor = Str_xffBlanks, !.remoteAddress = Str_ipSocket],
    [NoHeaders EXCEPT !.xForwardedFor = Str_xffEmptyFirst, !.xRealIp = Str_ipReal] }

\* A link of partner example.com, and the row a lookup returns for it.
PartnerLink == [PlainLink EXCEPT !.partner_id = {1}]
PartnerRow  == [PlainRow EXCEPT !.partner_domain = Str_partner]

\* Every request has looked the partner's link up and carries no referrer;
\* its handler derives the address, denies the request and stores the
\* address in the bypass row.
IpInit ==
  /\ now = 0
  /\ partners = <<[domain |-> Str_partner]>>
  /\ urls = {PartnerLink}
  /\ clicks = <<>>
  /\ bypass_logs = <<>>
  /\ pc = [r \in Reqs |-> "lookedUp"]
  /\ req \in [Reqs -> {[code |-> "abc", headers |-> h] : h \in AddressHeaderInputs}]
  /\ result = [r \in Reqs |-> [error |-> FALSE, rows |-> {PartnerRow}]]
  /\ res = [r \in Reqs |-> <<>>]
  /\ bg = [r \in Reqs |-> NoBg]
  /\ issued = [r \in Reqs |-> <<"lookup">>]

IpNext ==
  \/ \E r \in Reqs : HandleLookup(r)
  \/ \E r \in Reqs, ok \in BOOLEAN : DbInsertBypass(r, ok)

IpSpec == IpInit /\ [][IpNext]_vars

\* ---------------------------------------------------------------- claims
\* How often x occurs in the sequence s.
Count(s, x) == Cardinality({i \in DOMAIN s : s[i] = x})

\* The click and bypass rows request r inserted that are still stored.
clicksBy(r) == Cardinality({i \in DOMAIN clicks : clicks[i].by = r})
bypassBy(r) == Cardinality({i \in DOMAIN bypass_logs : bypass_logs[i].by = r})

\* Request r was answered with this status.
answered(r, status) == \E i \in DOMAIN res[r] : res[r][i].status = status

\* The counter stored for code, as a set: empty when the code has no link.
counterOf(code) == {u.clicks : u \in {v \in urls : v.code = code}}

\* Request r's step: it issued something in this step, the last of which is x.
issuedNow(r, x) ==
  /\ Len(issued'[r]) > Len(issued[r])
  /\ issued'[r][Len(issued'[r])] = x

\* C1: every GET /:code request gets exactly one response, of status 200,
\* 403, 404, 410 or 500, sent when its handler ends; the background task is
\* scheduled exactly once by a request answered 200 and never by any other.
C1_OneResponseOneTask ==
  \A r \in Reqs :
    /\ Len(res[r]) <= 1
    /\ (pc[r] = "done") <=> (Len(res[r]) = 1)
    /\ \A i \in DOMAIN res[r] : res[r][i].status \in {200, 403, 404, 410, 500}
    /\ Count(issued[r], "getLocation") = IF answered(r, 200) THEN 1 ELSE 0
    /\ (bg[r].pc # "none") <=> answered(r, 200)

\* C1 witness: one request was answered 200 with its task scheduled, another
\* was denied with 403 and scheduled none.
C1_Witness ==
  \E r1, r2 \in Reqs :
    /\ answered(r1, 200) /\ Count(issued[r1], "getLocation") = 1
    /\ answered(r2, 403) /\ Count(issued[r2], "getLocation") = 0

\* C2 as claimed: every allowed request whose background task has ended has
\* had exactly one click insert succeed, whatever the datastore did.
C2_Original ==
  \A r \in Reqs :
    (answered(r, 200) /\ bg[r].pc = "done")
      => Count(issued[r], "insertClick.ok") = 1

\* C2 as amended: an allowed request issues its click insert at most once,
\* and exactly once by the time its background task has ended; never more
\* than one of its rows is stored; a row of it is stored only after that
\* insert succeeded, the step in which the insert succeeds stores exactly
\* one row of it, and a failed insert stores none and is not repeated.
C2_AtMostOneClickEvent ==
  [][\A r \in Reqs :
       /\ Count(issued'[r], "insertClick") <= 1
       /\ clicksBy(r)' <= 1
       /\ clicksBy(r)' = 1 => Count(issued'[r], "insertClick.ok") = 1
       /\ bg'[r].pc = "done" =>
            /\ answered(r, 200)'
            /\ Count(issued'[r], "insertClick") = 1
            /\ Count(issued'[r], "insertClick.ok")
                 + Count(issued'[r], "insertClick.failed") = 1
       /\ (Count(issued'[r], "insertClick.ok") > Count(issued[r], "insertClick.ok"))
            => /\ clicksBy(r) = 0 /\ clicksBy(r)' = 1
               /\ Len(clicks') = Len(clicks) + 1
       /\ issuedNow(r, "insertClick.failed")
            => clicks' = clicks /\ clicksBy(r)' = 0 /\ bg'[r].pc = "done"
    ]_vars

\* C2 witness: an allowed request whose geolocation failed has its one click
\* row stored, and another allowed request's insert failed and stored none.
C2_Witness ==
  \E r1, r2 \in Reqs :
    /\ bg[r1].pc = "done" /\ clicksBy(r1) = 1
    /\ bg[r1].location = UnknownLocation
    /\ bg[r2].pc = "done" /\ clicksBy(r2) = 0
    /\ Count(issued[r2], "insertClick.failed") = 1

\* C3 as claimed: every allowed request whose background task has ended has
\* raised the counter exactly once.
C3_Original ==
  \A r \in Reqs :
    (answered(r, 200) /\ bg[r].pc = "done")
      => Count(issued[r], "updateClicks.ok") = 1

\* C3 as amended: an allowed request issues the counter update at most once,
\* and exactly when its click insert succeeded, whatever location the
\* geolocation returned; the update raises the counter of the request's code
\* by exactly 1 when it succeeds on an existing link, and leaves every
\* counter alone when it fails or the link is gone.
C3_IncrementAfterInsert ==
  [][\A r \in Reqs :
       /\ Count(issued'[r], "updateClicks") <= 1
       /\ Count(issued'[r], "updateClicks") = Count(issued'[r], "insertClick.ok")
       /\ bg'[r].pc = "done" =>
            Count(issued'[r], "updateClicks.ok")
              + Count(issued'[r], "updateClicks.failed")
              + Count(issued'[r], "updateClicks.norow")
              = Count(issued'[r], "insertClick.ok")
       /\ issuedNow(r, "updateClicks.ok") =>
            /\ counterOf(req[r].code) # {}
            /\ counterOf(req[r].code)' = {n + 1 : n \in counterOf(req[r].code)}
       /\ (issuedNow(r, "updateClicks.failed") \/ issuedNow(r, "updateClicks.norow"))
            => urls' = urls
    ]_vars

\* C3 witness: a request whose geolocation ended with the Unknown triple has
\* raised the counter of its link from 0 to 1.
C3_Witness ==
  \E r \in Reqs :
    /\ bg[r].pc = "done" /\ bg[r].location = UnknownLocation
    /\ Count(issued[r], "updateClicks.ok") = 1
    /\ counterOf(req[r].code) = {1}

\* The step in which request r's handler resumes with its lookup result.
handled(r) == pc[r] = "lookedUp" /\ pc'[r] # "lookedUp"

\* The lookup of request r returned a row; the row.
found(r) == ~result[r].error /\ result[r].rows # {}
urlDataOf(r) == CHOOSE x \in result[r].rows : TRUE

\* The row was found expired, or its referrer check failed, at this instant.
pastExpiry(u) == \E e \in u.expires_at : e < now
failsPartnerCheck(u, r) ==
  /\ u.partner_domain # Str_empty
  /\ ~isAllowed(u.partner_domain, referrerOf(req[r].headers))

\* The entries of request r's log that belong to click recording.
recording(r) ==
  {i \in DOMAIN issued[r] :
     issued[r][i] \in {"insertClick", "insertClick.ok", "insertClick.failed",
                       "updateClicks", "updateClicks.ok", "updateClicks.failed",
                       "updateClicks.norow"}}

\* C4: when the handler reaches the referrer policy with a partner configured
\* and the referrer fails the check, it issues one bypass insert and nothing
\* else; whether or not that insert succeeds the request is answered 403,
\* with a page that does not embed the target URL; it never has a background
\* task, a click row or a counter update, and at most one bypass row.
C4_BypassDenied ==
  [][\A r \in Reqs :
       /\ (handled(r) /\ found(r) /\ failsPartnerCheck(urlDataOf(r), r)
             /\ ~pastExpiry(urlDataOf(r)))
            => /\ pc'[r] = "bypassInsert"
               /\ issuedNow(r, "insertBypass")
               /\ res'[r] = <<>>
       /\ (pc[r] = "bypassInsert" /\ pc'[r] # "bypassInsert")
            => /\ pc'[r] = "done"
               /\ Len(res'[r]) = 1
               /\ res'[r][1].status = 403
               /\ res'[r][1].targetUrl = Str_empty
               /\ \/ bypass_logs' = bypass_logs
                  \/ /\ Len(bypass_logs') = Len(bypass_logs) + 1
                     /\ bypassBy(r)' = 1
       /\ Count(issued'[r], "insertBypass") <= 1
       /\ Count(issued'[r], "insertBypass") = 1
            => /\ bg'[r].pc = "none"
               /\ clicksBy(r)' = 0
               /\ recording(r)' = {}
               /\ Count(issued'[r], "getLocation") = 0
               /\ \A i \in DOMAIN res'[r] : res'[r][i].status = 403
    ]_vars

\* C4 witness: two requests were denied with 403; the bypass insert of one
\* succeeded and that of the other failed.
C4_Witness ==
  \E r1, r2 \in Reqs :
    /\ answered(r1, 403) /\ bypassBy(r1) = 1
    /\ answered(r2, 403) /\ bypassBy(r2) = 0
    /\ \E u \in urls : u.code = req[r2].code

\* C5: a lookup that runs when no link has the code returns no row, and the
\* handler then answers 404 and writes nothing: no click row, no bypass row,
\* no counter update, no background task.
C5_NotFound ==
  [][\A r \in Reqs :
       /\ (pc[r] = "lookup" /\ pc'[r] = "lookedUp" /\ ~result'[r].error
             /\ ~\E u \in urls : u.code = req[r].code)
            => result'[r].rows = {}
       /\ (handled(r) /\ ~result[r].error /\ result[r].rows = {})
            => /\ pc'[r] = "done"
               /\ Len(res'[r]) = 1
               /\ res'[r][1].status = 404
               /\ res'[r][1].targetUrl = Str_empty
               /\ clicks' = clicks /\ bypass_logs' = bypass_logs /\ urls' = urls
       /\ answered(r, 404)'
            => /\ issued'[r] = <<"lookup", "send404">>
               /\ bg'[r].pc = "none"
               /\ clicksBy(r)' = 0 /\ bypassBy(r)' = 0
    ]_vars

\* C5 witness: a request for a code without link was answered 404 while the
\* tables hold a link (created since) and a click of another request.
C5_Witness ==
  \E r1, r2 \in Reqs :
    /\ answered(r1, 404)
    /\ clicksBy(r2) = 1

\* C6: a handler that finds a link whose expires_at is set and before the
\* current instant answers 410, whatever the referrer and the partner, and
\* writes nothing; a link whose expires_at is unset, or is the current
\* instant or later, is not answered 410.
C6_Expired ==
  [][\A r \in Reqs :
       /\ (handled(r) /\ found(r) /\ pastExpiry(urlDataOf(r)))
            => /\ pc'[r] = "done"
               /\ Len(res'[r]) = 1
               /\ res'[r][1].status = 410
               /\ clicks' = clicks /\ bypass_logs' = bypass_logs /\ urls' = urls
       /\ (handled(r) /\ found(r) /\ ~pastExpiry(urlDataOf(r)))
            => ~answered(r, 410)' /\ issuedNow(r, "send410") = FALSE
       /\ answered(r, 410)'
            => /\ issued'[r] = <<"lookup", "send410">>
               /\ bg'[r].pc = "none"
               /\ clicksBy(r)' = 0 /\ bypassBy(r)' = 0
    ]_vars

\* C6 witness: a request without referrer for an expired link that has a
\* partner was answered 410.
C6_Witness ==
  \E r \in Reqs :
    /\ answered(r, 410)
    /\ referrerOf(req[r].headers) = Str_Direct
    /\ \E u \in urls : /\ u.code = req[r].code
                       /\ partnerDomainOf(u) # Str_empty
                       /\ pastExpiry(u)

\* C7 as claimed: while no partner exists (so no link has one configured), a
\* request that found an unexpired link and whose background task has ended
\* has had a click insert succeed.
C7_Original ==
  \A r \in Reqs :
    (partners = <<>> /\ answered(r, 200) /\ bg[r].pc = "done")
      => Count(issued[r], "insertClick.ok") = 1

\* C7 as amended: a handler that finds an unexpired link without partner
\* answers 200 with the link's target, whatever the referrer, and schedules
\* the background task; the request never issues a bypass insert nor has a
\* bypass row, and its task issues exactly one click insert.
C7_NoPartnerAllowed ==
  [][\A r \in Reqs :
       /\ (handled(r) /\ found(r) /\ urlDataOf(r).partner_domain = Str_empty
             /\ ~pastExpiry(urlDataOf(r)))
            => /\ pc'[r] = "done"
               /\ Len(res'[r]) = 1
               /\ res'[r][1].status = 200
               /\ res'[r][1].targetUrl = urlDataOf(r).url
               /\ Count(issued'[r], "getLocation") = 1
               /\ bg'[r].pc \in {"fetch", "insert"}
       /\ answered(r, 200)'
            => /\ Count(issued'[r], "insertBypass") = 0
               /\ bypassBy(r)' = 0
               /\ bg'[r].pc = "done" => Count(issued'[r], "insertClick") = 1
    ]_vars

\* C7 witness: with no partner in the datastore, a request without referrer
\* was answered 200 and its click row is stored.
C7_Witness ==
  \E r \in Reqs :
    /\ partners = <<>>
    /\ referrerOf(req[r].headers) = Str_Direct
    /\ answered(r, 200)
    /\ clicksBy(r) = 1

\* The position of "send200" in the log of a request answered 200.
sent200At(r) == CHOOSE i \in DOMAIN issued[r] : issued[r][i] = "send200"

\* C8 as claimed: in a request answered 200, the fetch, the click insert and
\* the counter update are all issued after the response is sent.
C8_Original ==
  \A r \in Reqs :
    answered(r, 200) =>
      \A i \in DOMAIN issued[r] :
        (issued[r][i] = "fetch" \/ i \in recording(r)) => i > sent200At(r)

\* C8 as amended: in a request answered 200, the response is sent before any
\* click insert or counter update is issued and, for an address that is not
\* local, before getLocationFromIP has returned a location; the fetch itself
\* is issued before the response is sent.
C8_ResponseBeforeRecording ==
  \A r \in Reqs :
    answered(r, 200) =>
      /\ Count(issued[r], "send200") = 1
      /\ \A i \in recording(r) : i > sent200At(r)
      /\ \A i \in DOMAIN issued[r] : issued[r][i] = "fetch" => i < sent200At(r)
      /\ \A i \in 1..(sent200At(r) - 1) :
           issued[r][i] \in {"lookup", "getLocation", "fetch"}
      /\ Count(issued[r], "fetch") =
           IF isLocalIP(getRealIP(req[r].headers)) THEN 0 ELSE 1
      /\ (Len(issued[r]) = sent200At(r)) => bg[r].pc \in {"fetch", "body"}

\* C8 witness: the response of a request from a public address has just been
\* sent, and its fetch is pending.
C8_Witness ==
  \E r \in Reqs :
    /\ issued[r] = <<"lookup", "getLocation", "fetch", "send200">>
    /\ bg[r].pc = "fetch"

\* The requests whose counter update raised the counter of code.
raisedCounter(code) ==
  {r \in Reqs : req[r].code = code /\ Count(issued[r], "updateClicks.ok") = 1}

\* C9 as claimed: the counter stored for a code never decreases. Every
\* successful update raised the stored counter by one, so a counter that
\* never decreased is at least the number of those updates.
C9_Original ==
  \A c \in Codes : \A n \in counterOf(c) : n >= Cardinality(raisedCounter(c))

\* C9 as amended: while a link exists its counter never decreases, and every
\* change of it is an increase by 1 made by the counter update of a
\* background task whose click insert for that code succeeded; a link that
\* is created starts at 0.
C9_CounterOfALink ==
  [][\A c \in Codes :
       /\ (counterOf(c) # {} /\ counterOf(c)' # {})
            => \A m \in counterOf(c), n \in counterOf(c)' :
                 \/ n = m
                 \/ /\ n = m + 1
                    /\ \E r \in Reqs :
                         /\ req[r].code = c
                         /\ issuedNow(r, "updateClicks.ok")
                         /\ Count(issued[r], "insertClick.ok") = 1
       /\ (counterOf(c) = {} /\ counterOf(c)' # {}) => counterOf(c)' = {0}
    ]_vars

\* C9 witness: two background tasks have raised the counter of a link to 2.
C9_Witness ==
  \E c \in Codes : counterOf(c) = {2} /\ Cardinality(raisedCounter(c)) = 2

\* The click rows stored for code.
clickEventsOf(code) == Cardinality({i \in DOMAIN clicks : clicks[i].code = code})

\* C10 as claimed: whenever no background task is in flight, the counter of
\* every link equals the number of click rows stored for its code.
C10_Original ==
  (\A r \in Reqs : bg[r].pc \in {"none", "done"})
    => \A u \in urls : u.clicks = clickEventsOf(u.code)

\* A step of request r's background task: its continuation moves.
backgroundStep(r) == bg[r].pc # "none" /\ bg'[r] # bg[r]

\* Request r's response is sent in this step; its status.
respondsNow(r) == res[r] = <<>> /\ res'[r] # <<>>
statusNow(r) == res'[r][1].status

\* C11: a response, once sent, is never changed or followed by another, and
\* no step of a background task (geolocation failing or timing out, the
\* click insert failing, the counter update failing) touches any response; a
\* handler that found an unexpired link passing the referrer policy answers
\* 200 with the link's target; a response other than 200 is sent only by a
\* handler whose lookup failed (500), returned no row (404), returned an
\* expired link (410), or whose referrer check failed (403).
C11_BackgroundNeverAltersResponse ==
  [][\A r \in Reqs :
       /\ res[r] # <<>> => res'[r] = res[r]
       /\ backgroundStep(r) => res' = res /\ pc' = pc
       /\ (handled(r) /\ found(r) /\ ~pastExpiry(urlDataOf(r))
             /\ ~failsPartnerCheck(urlDataOf(r), r))
            => /\ res'[r] = <<[status |-> 200, page |-> "verifying",
                               targetUrl |-> urlDataOf(r).url]>>
               /\ urlDataOf(r).url # Str_empty
       /\ (respondsNow(r) /\ statusNow(r) # 200)
            => \/ handled(r) /\ result[r].error /\ statusNow(r) = 500
               \/ handled(r) /\ ~result[r].error /\ result[r].rows = {}
                    /\ statusNow(r) = 404
               \/ handled(r) /\ found(r) /\ pastExpiry(urlDataOf(r))
                    /\ statusNow(r) = 410
               \/ pc[r] = "bypassInsert" /\ statusNow(r) = 403
    ]_vars

\* C11 witness: two requests were answered 200 with the target; the
\* geolocation and the click insert of one failed, and the counter update of
\* the other failed.
C11_Witness ==
  \E r1, r2 \in Reqs :
    /\ res[r1] = <<[status |-> 200, page |-> "verifying", targetUrl |-> Str_target]>>
    /\ ~isLocalIP(getRealIP(req[r1].headers))
    /\ bg[r1].location = UnknownLocation
    /\ Count(issued[r1], "insertClick.failed") = 1
    /\ res[r2] = <<[status |-> 200, page |-> "verifying", targetUrl |-> Str_target]>>
    /\ Count(issued[r2], "updateClicks.failed") = 1

\* C12: a handler whose lookup query failed answers 500 with the generic
\* message, which embeds no target URL, and writes nothing; a request
\* answered 500 has issued nothing but its lookup, has no background task
\* and has no click row or bypass row.
C12_UnexpectedFailure ==
  [][\A r \in Reqs :
       /\ (handled(r) /\ result[r].error)
            => /\ pc'[r] = "done"
               /\ res'[r] = <<[status |-> 500, page |-> "Internal server error",
                               targetUrl |-> Str_empty]>>
               /\ clicks' = clicks /\ bypass_logs' = bypass_logs /\ urls' = urls
       /\ answered(r, 500)'
            => /\ issued'[r] = <<"lookup", "send500">>
               /\ bg'[r].pc = "none"
               /\ clicksBy(r)' = 0 /\ bypassBy(r)' = 0
               /\ \A i \in DOMAIN res'[r] : res'[r][i].targetUrl = Str_empty
    ]_vars

\* C12 witness: a request for an existing link was answered 500 while a
\* click row of another request is stored.
C12_Witness ==
  \E r1, r2 \in Reqs :
    /\ answered(r1, 500)
    /\ \E u \in urls : u.code = req[r1].code
    /\ clicksBy(r2) = 1

\* A link is stored for code.
hasLink(code) == \E u \in urls : u.code = code

\* A link is deleted in this step.
deletedNow(code) == hasLink(code) /\ ~hasLink(code)'

\* C13 as claimed: when the click insert of a request answered 200 is
\* pending and the link of its code has been deleted, the insert can persist
\* the request's click row.
C13_Original ==
  \A r \in Reqs :
    (answered(r, 200) /\ bg[r].pc = "insert" /\ ~hasLink(req[r].code))
      => ENABLED (DbInsertClick(r, TRUE) /\ Len(clicks') = Len(clicks) + 1)

\* C13 as amended: the deletion of a link leaves every background task and
\* what it has issued as they were, and a pending click insert leaves that
\* state only by executing; but an insert that executes while no link has
\* its code is rejected: it stores nothing, the counter update is not
\* issued, and the task ends. Every stored click row has the code of a
\* stored link.
C13_DeletionDoesNotCancel ==
  [][/\ \A c \in Codes : deletedNow(c) => bg' = bg /\ issued' = issued
     /\ \A r \in Reqs :
          /\ (bg[r].pc = "insert" /\ bg'[r].pc # "insert")
               => /\ Count(issued'[r], "insertClick.ok")
                       + Count(issued'[r], "insertClick.failed") = 1
                  /\ bg'[r].pc \in {"update", "done"}
          /\ (bg[r].pc = "insert" /\ bg'[r].pc # "insert" /\ ~hasLink(req[r].code))
               => /\ clicks' = clicks
                  /\ issuedNow(r, "insertClick.failed")
                  /\ bg'[r].pc = "done"
     /\ \A i \in DOMAIN clicks' : \E u \in urls' : u.code = clicks'[i].code
    ]_vars

\* C13 witness: after their 200 responses the link was deleted; the click
\* insert of one request has executed and stored nothing, and that of the
\* other is still pending.
C13_Witness ==
  \E r1, r2 \in Reqs :
    /\ answered(r1, 200) /\ answered(r2, 200)
    /\ ~hasLink(req[r1].code) /\ ~hasLink(req[r2].code)
    /\ bg[r1].pc = "done" /\ Count(issued[r1], "insertClick.failed") = 1
    /\ bg[r2].pc = "insert"
    /\ clicks = <<>>

\* The lookup query of request r is run by the datastore in this step.
lookedUpNow(r) == pc[r] = "lookup" /\ pc'[r] = "lookedUp" /\ ~result'[r].error

\* The row the datastore holds for link u now: its partner's domain is that
\* of the partners row whose id is u.partner_id, if there is one.
currentRow(u) ==
  [code |-> u.code, url |-> u.url, expires_at |-> u.expires_at,
   partner_domain |->
     IF \E i \in u.partner_id : i \in 1..Len(partners)
     THEN partners[CHOOSE i \in u.partner_id : i \in 1..Len(partners)].domain
     ELSE <<>>]

\* C14: every lookup returns exactly what the datastore holds for the code
\* when the lookup runs: no row when no link has the code (a link deleted
\* and not created again), else the link's row with its current expiry and
\* its current partner's domain; and the handler decides from that result
\* alone: 404 for no row, 410 for an expiry before now, the bypass path for a
\* partner whose check the referrer fails, 200 with the row's target else.
C14_NeverCached ==
  [][\A r \in Reqs :
       /\ lookedUpNow(r) =>
            result'[r].rows = {currentRow(u) : u \in {v \in urls : v.code = req[r].code}}
       /\ (lookedUpNow(r) /\ ~hasLink(req[r].code)) => result'[r].rows = {}
       /\ (handled(r) /\ ~result[r].error /\ result[r].rows = {})
            => res'[r] = <<[status |-> 404, page |-> "notFound", targetUrl |-> <<>>]>>
       /\ (handled(r) /\ found(r)) =>
            LET u == urlDataOf(r)
            IN IF \E e \in u.expires_at : e < now
               THEN Len(res'[r]) = 1 /\ res'[r][1].status = 410
               ELSE IF u.partner_domain # <<>>
                       /\ ~isAllowed(u.partner_domain, referrerOf(req[r].headers))
               THEN res'[r] = <<>> /\ pc'[r] = "bypassInsert"
               ELSE /\ Len(res'[r]) = 1 /\ res'[r][1].status = 200
                    /\ res'[r][1].targetUrl = u.url
    ]_vars

\* C14 witness: of two requests for one code, the earlier was answered 200
\* and the later, whose lookup ran when the link had been deleted, 404.
C14_Witness ==
  \E r1, r2 \in Reqs :
    /\ r1 < r2 /\ req[r1].code = req[r2].code
    /\ answered(r1, 200) /\ answered(r2, 404)
    /\ issued[r2] = <<"lookup", "send404">>

\* getLocationFromIP has issued its outbound request for request r and has
\* not returned yet.
resolving(r) == bg[r].pc \in {"fetch", "body"}

\* C15 as claimed: every getLocationFromIP call that issued its outbound
\* request eventually returns a location, also when the provider never
\* finishes delivering its response.
C15_Original == \A r \in Reqs : resolving(r) ~> ~resolving(r)

\* The decimal number a string of digits denotes; none (the empty set) for
\* any other string.
Digits == <<"0","1","2","3","4","5","6","7","8","9">>
digitOf(c) == {i - 1 : i \in {j \in DOMAIN Digits : Digits[j] = c}}
RECURSIVE numberOf(_)
numberOf(s) ==
  IF Len(s) = 0 THEN {}
  ELSE IF Len(s) = 1 THEN digitOf(s[1])
  ELSE {10 * n + d : n \in numberOf(SubSeq(s, 1, Len(s) - 1)),
                     d \in digitOf(s[Len(s)])}

\* The fields of s between its dots.
RECURSIVE fieldsOf(_)
fieldsOf(s) ==
  IF \E i \in DOMAIN s : s[i] = "."
  THEN LET i == CHOOSE k \in DOMAIN s : s[k] = "." /\ \A j \in 1..(k - 1) : s[j] # "."
       IN <<SubSeq(s, 1, i - 1)>> \o fieldsOf(SubSeq(s, i + 1, Len(s)))
  ELSE <<s>>

\* ip is a dotted quad whose first two octets satisfy P.
quadWith(ip, P(_, _)) ==
  LET f == fieldsOf(ip)
  IN /\ Len(f) = 4
     /\ \A i \in 1..4 : \E n \in numberOf(f[i]) : n \in 0..255
     /\ \E a \in numberOf(f[1]), b \in numberOf(f[2]) : P(a, b)

\* Loopback addresses (127.0.0.0/8), the IPv6 loopback and its form wrapping
\* the IPv4 loopback, and the private ranges of RFC 1918.
isLoopback(ip) ==
  \/ quadWith(ip, LAMBDA a, b : a = 127)
  \/ ip = <<":",":","1">>
  \/ ip = <<":",":","f","f","f","f",":","1","2","7",".","0",".","0",".","1">>
isRFC1918(ip) ==
  quadWith(ip, LAMBDA a, b : \/ a = 10
                             \/ a = 172 /\ b \in 16..31
                             \/ a = 192 /\ b = 168)

\* C16 as claimed: for every loopback or private address getLocationFromIP
\* returns the Local triple and issues no outbound request.
C16_Original ==
  \A r \in Reqs :
    (answered(r, 200) /\ LET ip == getRealIP(req[r].headers)
                         IN isLoopback(ip) \/ isRFC1918(ip))
      => /\ Count(issued[r], "fetch") = 0
         /\ bg[r] = [pc |-> "insert", location |-> LocalLocation]

\* Request r carries no referrer header.
noReferrer(r) == req[r].headers.referer = <<>> /\ req[r].headers.referrer = <<>>

\* The bypass rows stored for request r.
bypassRowsOf(r) == {bypass_logs[i] : i \in {j \in DOMAIN bypass_logs : bypass_logs[j].by = r}}

\* C17 as claimed: a request without referrer header that was denied by the
\* policy of partner example.com has, once it is answered, exactly one
\* bypass row stored.
C17_Original ==
  [][\A r \in Reqs :
       (pc[r] = "bypassInsert" /\ pc'[r] = "done" /\ noReferrer(r))
         => bypassBy(r)' = 1
    ]_vars

\* C17 as amended: the policy of partner example.com does not allow the
\* referrer "Direct"; a handler that found an unexpired link of that partner
\* for a request without referrer header issues exactly one bypass insert
\* and no response yet; when the insert has settled the request is answered
\* 403, and the insert has stored either nothing (it failed) or exactly one
\* row, of this request and code, whose referrer is "Direct".
C17_DirectIsBypass ==
  [][/\ \A r \in Reqs :
          /\ (handled(r) /\ found(r) /\ noReferrer(r)
                /\ urlDataOf(r).partner_domain = Str_partner
                /\ ~pastExpiry(urlDataOf(r)))
               => /\ ~isAllowed(Str_partner, <<"D","i","r","e","c","t">>)
                  /\ pc'[r] = "bypassInsert"
                  /\ res'[r] = <<>>
                  /\ Count(issued'[r], "insertBypass") = 1
                  /\ issuedNow(r, "insertBypass")
          /\ (pc[r] = "bypassInsert" /\ pc'[r] = "done" /\ noReferrer(r))
               => /\ Len(res'[r]) = 1 /\ res'[r][1].status = 403
                  /\ Count(issued'[r], "insertBypass") = 1
                  /\ \/ bypass_logs' = bypass_logs
                     \/ \E row \in [code : {req[r].code}, referrer : {<<"D","i","r","e","c","t">>},
                                     ip_address : {getRealIP(req[r].headers)},
                                     user_agent : {userAgentOf(req[r].headers)},
                                     by : {r}] :
                          bypass_logs' = Append(bypass_logs, row)
          /\ bypassBy(r)' <= 1
          /\ noReferrer(r)' =>
               \A row \in bypassRowsOf(r)' : row.referrer = <<"D","i","r","e","c","t">>
    ]_vars

\* C17 witness: a request without referrer header for a link of partner
\* example.com was answered 403 and its one bypass row, with referrer
\* "Direct", is stored.
C17_Witness ==
  \E r \in Reqs :
    /\ noReferrer(r) /\ answered(r, 403)
    /\ \E u \in urls : u.code = req[r].code /\ partnerDomainOf(u) = Str_partner
    /\ bypassBy(r) = 1
    /\ \A row \in bypassRowsOf(r) : row.referrer = Str_Direct

\* The form of a domain or referrer that does not depend on a leading
\* protocol, a leading www., one trailing slash, or letter case.
canonical(str) == stripTrailingSlash(stripWww(stripProtocol(toLowerCase(str))))

\* The policy has decided on request r; it allowed the request.
decided(r) == pc[r] \in {"bypassInsert", "done"}
policyAllowed(r) == pc[r] = "done" /\ answered(r, 200)

\* C18 as claimed: two requests whose partner domains differ only in
\* protocol, www., a trailing slash or letter case, and whose referrers
\* differ only so, get the same decision of the referrer policy.
C18_Original ==
  \A r1, r2 \in Reqs :
    ( /\ decided(r1) /\ decided(r2)
      /\ canonical(partners[r1].domain) = canonical(partners[r2].domain)
      /\ canonical(req[r1].headers.referer) = canonical(req[r2].headers.referer) )
      => (policyAllowed(r1) <=> policyAllowed(r2))

\* The browser rules in their order: a rule matches a string that contains
\* one of any and none of none, letter case ignored.
BrowserRules ==
  << [label |-> "Chrome",  any |-> {<<"c","h","r","o","m","e">>}, none |-> {<<"e","d","g">>}],
     [label |-> "Safari",  any |-> {<<"s","a","f","a","r","i">>},
      none |-> {<<"c","h","r","o","m","e">>}],
     [label |-> "Firefox", any |-> {<<"f","i","r","e","f","o","x">>}, none |-> {}],
     [label |-> "Edge",    any |-> {<<"e","d","g">>}, none |-> {}],
     [label |-> "Opera",   any |-> {<<"o","p","e","r","a">>, <<"o","p","r">>}, none |-> {}] >>

containsWord(str, w) == includes(toLowerCase(str), w)

matches(rule, str) ==
  /\ \E w \in rule.any : containsWord(str, w)
  /\ \A w \in rule.none : ~containsWord(str, w)

\* The label of the first rule that matches str, "Unknown" when none does.
firstMatch(str) ==
  IF \E i \in DOMAIN BrowserRules : matches(BrowserRules[i], str)
  THEN BrowserRules[CHOOSE i \in DOMAIN BrowserRules :
                      /\ matches(BrowserRules[i], str)
                      /\ \A j \in 1..(i - 1) : ~matches(BrowserRules[j], str)].label
  ELSE "Unknown"

\* C19: the browser of every stored click row is the label of the first
\* rule, in the order Chrome, Safari, Firefox, Edge, Opera, that matches the
\* row's user agent with letter case ignored, and "Unknown" when no rule
\* matches.
C19_BrowserFirstMatch ==
  \A i \in DOMAIN clicks : clicks[i].browser = firstMatch(clicks[i].user_agent)

\* C19 witness: the row of a user agent containing "Chrome" and "Safari"
\* and no "edg" is stored with browser Chrome, and the row of one containing
\* "Chrome", "Safari" and "Edg" with browser Edge.
C19_Witness ==
  \E i, j \in DOMAIN clicks :
    /\ containsWord(clicks[i].user_agent, Str_chrome)
    /\ containsWord(clicks[i].user_agent, Str_safari)
    /\ ~containsWord(clicks[i].user_agent, Str_edg)
    /\ clicks[i].browser = "Chrome"
    /\ containsWord(clicks[j].user_agent, Str_chrome)
    /\ containsWord(clicks[j].user_agent, Str_edg)
    /\ clicks[j].browser = "Edge"

\* The positions of x in request r's log.
positions(r, x) == {i \in DOMAIN issued[r] : issued[r][i] = x}

\* C20: in every request's log the click insert and the counter update occur
\* at most once each; the update is issued directly after the insert's
\* success and so after the insert itself; after a failed insert no update
\* is issued and the task has ended; each of the two has at most one
\* outcome, and after a failed update the task has ended with nothing
\* issued again.
C20_SequentialNoRetry ==
  \A r \in Reqs :
    /\ Cardinality(positions(r, "insertClick")) <= 1
    /\ Cardinality(positions(r, "updateClicks")) <= 1
    /\ \A i \in positions(r, "updateClicks") :
         /\ i > 1 /\ issued[r][i - 1] = "insertClick.ok"
         /\ \E j \in positions(r, "insertClick") : j < i - 1
    /\ \A i \in positions(r, "insertClick.ok") \cup positions(r, "insertClick.failed") :
         \E j \in positions(r, "insertClick") : j < i
    /\ Cardinality(positions(r, "insertClick.ok")
                     \cup positions(r, "insertClick.failed")) <= 1
    /\ positions(r, "insertClick.failed") # {}
         => /\ positions(r, "updateClicks") = {}
            /\ bg[r].pc = "done"
            /\ issued[r][Len(issued[r])] = "insertClick.failed"
    /\ bg[r].pc = "update"
         => /\ positions(r, "insertClick.ok") # {}
            /\ issued[r][Len(issued[r])] = "updateClicks"
    /\ LET outcomes == positions(r, "updateClicks.ok")
                          \cup positions(r, "updateClicks.failed")
                          \cup positions(r, "updateClicks.norow")
       IN /\ Cardinality(outcomes) <= 1
          /\ \A i \in outcomes :
               /\ i = Len(issued[r]) /\ issued[r][i - 1] = "updateClicks"
               /\ bg[r].pc = "done"

\* C20 witness: the task of one request ended after its insert failed, with
\* no update issued; the task of another ended after its insert succeeded
\* and its update failed, with nothing issued again.
C20_Witness ==
  \E r1, r2 \in Reqs :
    /\ bg[r1].pc = "done" /\ positions(r1, "insertClick.failed") # {}
    /\ positions(r1, "updateClicks") = {}
    /\ bg[r2].pc = "done" /\ positions(r2, "insertClick.ok") # {}
    /\ positions(r2, "updateClicks.failed") # {}

\* An earlier request from the address of request r was answered 200.
allowedBefore(r) ==
  \E q \in Reqs :
    /\ q # r /\ answered(q, 200)
    /\ getRealIP(req[q].headers) = getRealIP(req[r].headers)

\* C21: the decision of a handler that found an unexpired link is denial
\* exactly when the row it looked up has a partner domain and the policy
\* does not allow the request's own referrer for that domain, whatever
\* earlier requests did and how they were answered: a denied request issues
\* its bypass insert and is then answered 403, an allowed one is answered
\* 200; in particular a request from an address that was answered 200
\* before is denied when its referrer fails the check.
C21_StatelessGate ==
  [][\A r \in Reqs :
       /\ (handled(r) /\ found(r) /\ ~pastExpiry(urlDataOf(r)))
            => LET domain == urlDataOf(r).partner_domain
                   deny == domain # <<>>
                             /\ ~isAllowed(domain, referrerOf(req[r].headers))
               IN /\ deny => /\ pc'[r] = "bypassInsert"
                             /\ res'[r] = <<>>
                             /\ issued'[r] = <<"lookup", "insertBypass">>
                  /\ ~deny => /\ pc'[r] = "done"
                              /\ Len(res'[r]) = 1 /\ res'[r][1].status = 200
                              /\ Count(issued'[r], "insertBypass") = 0
       /\ (pc[r] = "bypassInsert" /\ pc'[r] # "bypassInsert")
            => /\ Len(res'[r]) = 1 /\ res'[r][1].status = 403
               /\ bg'[r].pc = "none"
               /\ bypassBy(r)' <= 1
       /\ (bypassBy(r)' = 1 /\ bypassBy(r) = 0)
            => pc[r] = "bypassInsert" /\ pc'[r] = "done"
    ]_vars

\* C21 witness: a visitor was answered 200 when coming from the partner's
\* page; a later request from the same address with another referrer was
\* answered 403 and its bypass row is stored.
C21_Witness ==
  \E r \in Reqs :
    /\ allowedBefore(r)
    /\ \E q \in Reqs : q < r /\ answered(q, 200)
                         /\ referrerOf(req[q].headers) = Str_refPartner
    /\ referrerOf(req[r].headers) = Str_refOther
    /\ answered(r, 403)
    /\ bypassBy(r) = 1

\* The first comma-separated entry of s without the blanks around it,
\* computed from the positions of the comma and of the non-blank characters.
firstEntryTrimmed(s) ==
  LET commas == {i \in DOMAIN s : s[i] = ","}
      end == IF commas = {} THEN Len(s)
             ELSE (CHOOSE i \in commas : \A j \in commas : i <= j) - 1
      solid == {i \in 1..end : s[i] # " "}
  IN IF solid = {} THEN <<>>
     ELSE SubSeq(s, CHOOSE i \in solid : \A j \in solid : i <= j,
                    CHOOSE i \in solid : \A j \in solid : i >= j)

\* The sources of the address in their order of priority, each with whether
\* it is present and the address it gives.
addressSources(h) ==
  << [present |-> h.xForwardedFor # <<>>, address |-> firstEntryTrimmed(h.xForwardedFor)],
     [present |-> h.xRealIp # <<>>, address |-> h.xRealIp],
     [present |-> h.cfConnectingIp # <<>>, address |-> h.cfConnectingIp],
     [present |-> h.remoteAddress # <<>>, address |-> h.remoteAddress] >>

\* C22: the address stored for a request is that of the first present
\* source in the order x-forwarded-for (its first entry, trimmed), x-real-ip,
\* cf-connecting-ip, socket address, and "Unknown" when none is present; so
\* when a source gives the stored address, every source before it is absent.
C22_AddressPriority ==
  \A i \in DOMAIN bypass_logs :
    LET src == addressSources(req[bypass_logs[i].by].headers)
        ip == bypass_logs[i].ip_address
    IN /\ (\A k \in 1..4 : ~src[k].present) => ip = <<"U","n","k","n","o","w","n">>
       /\ \A k \in 1..4 :
            (src[k].present /\ \A j \in 1..(k - 1) : ~src[j].present)
              => ip = src[k].address

\* C22 witness: stored are the address of a request whose x-forwarded-for
\* lists two addresses, the first with blanks around it, and the address of
\* a request that carries x-real-ip, cf-connecting-ip and a socket address
\* but no x-forwarded-for.
C22_Witness ==
  \E i, j \in DOMAIN bypass_logs :
    /\ req[bypass_logs[i].by].headers.xForwardedFor = Str_xffBlanks
    /\ bypass_logs[i].ip_address = <<"2",".","2",".","2",".","2">>
    /\ req[bypass_logs[j].by].headers =
         [NoHeaders EXCEPT !.xRealIp = Str_ipReal, !.cfConnectingIp = Str_ipCf,
                           !.remoteAddress = Str_ipSocket]
    /\ bypass_logs[j].ip_address = Str_ipReal

\* The codes that have a link.
linkCodes == {u.code : u \in urls}

\* C23: in every state, every stored click row and every stored bypass row
\* has the code of a stored link.
C23_ReferentialIntegrity ==
  /\ \A i \in DOMAIN clicks : clicks[i].code \in linkCodes
  /\ \A i \in DOMAIN bypass_logs : bypass_logs[i].code \in linkCodes

\* C23 witness: the click row a request inserted is gone after the deletion
\* of its link, and the code, created again, has the bypass row of a later
\* request.
C23_Witness ==
  \E r1, r2 \in Reqs :
    /\ Count(issued[r1], "insertClick.ok") = 1 /\ clicksBy(r1) = 0
    /\ req[r1].code = req[r2].code
    /\ answered(r2, 403) /\ bypassBy(r2) = 1
    /\ clicks = <<>>

\* C24 as claimed: in every state the counter of every link is at most the
\* number of click rows stored for its code.
C24_Original ==
  \A u \in urls : u.clicks <= clickEventsOf(u.code)

====
